---- MODULE Spec2Model ----
(***************************************************************************)
(* CEMPA extractor API: the database configuration read at import, the     *)
(* session provider and commit_and_refresh (app/database/session.py), the  *)
(* workspace reset of DownloadCEMPAData (app/etl/extractor.py), the        *)
(* lifespan hooks that drive the process-wide scheduler and the event loop *)
(* on which the job and the /health endpoint run (app/app_factory.py).     *)
(***************************************************************************)
EXTENDS Integers, Sequences, FiniteSets, TLC

(* ---------------------------- bounds ----------------------------------- *)
\* largest value of the entity's data column
MaxData == 1
\* names an entry of <root>/cempa can have
MaxEntries == 3
\* invocations of DownloadCEMPAData that are followed
MaxRuns == 2
\* application instances of create_app() whose lifespan runs in the process
NumApps == 2
\* days the clock runs for
MaxDays == 2

(* ------------------------ program constants ---------------------------- *)
\* starlette.status.HTTP_400_BAD_REQUEST, the status commit_and_refresh raises
HTTP_400_BAD_REQUEST == 400
\* CronTrigger(hour=3, minute=30)
TriggerHour == 3
TriggerMinute == 30

\* the two kinds of unit of work that acquire a session: a request handler
\* (through get_session) and a background job block (get_session_for_queue)
Units == {"request", "queue"}
Data == 0..MaxData

VARIABLES
    \* ---- app/database/session.py ----
    upc,        \* upc[u]: where unit of work u stands
    via,        \* via[u]: the provider u acquired its session from
    sess,       \* sess[u]: state of the AsyncSession yielded to u
    dirty,      \* dirty[u]: the session holds an uncommitted mutation
    mem,        \* mem[u]: in-memory fields of u's entity
    db,         \* db[u]: the committed row of u's entity
    db0,        \* db0[u]: the committed row when commit_and_refresh was entered
    calls,      \* calls[u]: session methods commit_and_refresh has awaited, in order
    failed,     \* failed[u]: which await of commit_and_refresh raised ("none" = neither)
    rolled,     \* rolled[u]: db.rollback() completed
    exc,        \* exc[u]: the exception that left commit_and_refresh / the body
    ret,        \* ret[u]: the entity commit_and_refresh returned ("none" = nothing)
    logged,     \* logged[u]: what logger.error was given
    sid,        \* sid[u]: identity of the AsyncSession yielded to u (0 = none)
    bound,      \* bound[u]: the engine that session is bound to
    issued      \* sessions async_session() has constructed so far

VARIABLES
    \* ---- app/etl/extractor.py ----
    rootSet,    \* ROOT_DIR is set in the environment (None otherwise)
    wdir,       \* <root>/cempa: "absent" or "dir"
    ents,       \* ents[n]: what the entry named n of <root>/cempa is
    wdir0,      \* wdir when the current invocation began
    ents0,      \* ents when the current invocation began
    fpc,        \* where the invocation of DownloadCEMPAData stands
    todo,       \* names os.listdir returned that the loop has not visited yet
    deleted,    \* names logged as deleted
    warned,     \* names logged as skipped non-files
    created,    \* the creation of the directory was logged
    errLogged,  \* logger.error("Error deleting files") was called
    fsFailed,   \* the filesystem call that raised in this invocation
    fexc,       \* the exception that left DownloadCEMPAData
    runs,       \* invocations begun so far
    prev        \* how the invocation before the current one ended, and what it deleted

dbVars == <<upc, via, sess, dirty, mem, db, db0, calls, failed, rolled, exc, ret, logged,
            sid, bound, issued>>

fsVars == <<rootSet, wdir, ents, wdir0, ents0, fpc, todo, deleted, warned, created,
            errLogged, fsFailed, fexc, runs, prev>>

VARIABLES
    \* ---- app/app_factory.py ----
    lpc,        \* lpc[a]: where the lifespan of application a stands
    steps,      \* steps[a]: what the lifespan of a has completed, in order
    lerr,       \* lerr[a]: the exception that ended the lifespan of a
    schedState, \* the process-wide scheduler: "stopped" or "running"
    store,      \* the scheduler's job store: a sequence of jobs
    lastReg,    \* the application whose lifespan called add_job last (0 = none)
    startedAt,  \* when the scheduler was last started
    inst,       \* the job's instances in the executor (tasks created, not finished)
    firedAt,    \* run times the scheduler has dispatched
    ranAt,      \* run times whose occurrence ran DownloadCEMPAData
    failedAt,   \* run times whose occurrence raised
    cancelled,  \* occurrences cancelled before they ran
    disposed,   \* how many times engine.dispose() completed
    now,        \* the wall clock, in minutes since midnight of day 0
    stopping,   \* scheduler.shutdown() was called; its body is queued on the loop
    held,       \* DownloadCEMPAData is executing: the event loop runs nothing else
    req,        \* a GET /health request: "none" or "waiting" for the loop
    reqAt       \* when that request arrived

schedVars == <<lpc, steps, lerr, schedState, store, lastReg, startedAt, inst, firedAt,
               ranAt, failedAt, cancelled, disposed, now, stopping, held, req, reqAt>>

VARIABLES
    \* ---- app/database/session.py, module level ----
    env,          \* env[name]: the environment variable, None when it is not set
    cpc,          \* where the import of the module stands
    DATABASE_URL, \* the module global of that name
    cerr,         \* the exception that ended the import
    engine        \* the URL the engine was created from, None while there is none

cfgVars == <<env, cpc, DATABASE_URL, cerr, engine>>

vars == <<dbVars, fsVars, schedVars, cfgVars>>

(* ======================= app/database/session.py ======================= *)

\* a row / the loaded fields of an entity: a client-written column and a
\* server-maintained one (bumped by every UPDATE)
Row(d, g) == [data |-> d, gen |-> g]

NoExc == [kind |-> "none", status |-> 0, detail |-> ""]
\* the error raised at session.py:98-101
HTTPError == [kind |-> "HTTPException", status |-> HTTP_400_BAD_REQUEST,
              detail |-> "Error updating entity"]
\* what the driver raises out of commit / refresh / rollback
InternalError == [kind |-> "DBAPIError", status |-> 0, detail |-> "internal error text"]
\* an exception of the caller's own code inside the scope
CallerError == [kind |-> "CallerError", status |-> 0, detail |-> "caller"]

\* outcomes of an awaited session method: it completes, or raises an Exception
Outcomes == {"ok", "raises"}

DbInit ==
    /\ upc = [u \in Units |-> "idle"]
    /\ via = [u \in Units |-> "none"]
    /\ sess = [u \in Units |-> "none"]
    /\ dirty = [u \in Units |-> FALSE]
    /\ mem = [u \in Units |-> Row(0, 0)]
    /\ db \in [Units -> {Row(d, 0) : d \in Data}]
    /\ db0 = db
    /\ calls = [u \in Units |-> <<>>]
    /\ failed = [u \in Units |-> "none"]
    /\ rolled = [u \in Units |-> FALSE]
    /\ exc = [u \in Units |-> NoExc]
    /\ ret = [u \in Units |-> "none"]
    /\ logged = [u \in Units |-> "none"]
    /\ sid = [u \in Units |-> 0]
    /\ bound = [u \in Units |-> "none"]
    /\ issued = 0

\* a factory that hands every caller the one session it made first
SharedSession(n) == 1

\* session.py:41-45 called at 55 / 68: async_session() constructs a new
\* AsyncSession on every call; n sessions were constructed before this one
NewSession(n) == n + 1

\* session.py:33-37: the one engine of the process, the bind of the factory
Engine == "engine"

\* `async with async_session() as session: yield session`: a new session, and
\* the entity of the unit of work loaded into it
Acquire(u, provider) ==
    /\ upc[u] = "idle"
    /\ upc' = [upc EXCEPT ![u] = "body"]
    /\ via' = [via EXCEPT ![u] = provider]
    /\ sess' = [sess EXCEPT ![u] = "open"]
    /\ mem' = [mem EXCEPT ![u] = db[u]]
    /\ sid' = [sid EXCEPT ![u] = NewSession(issued)]
    /\ bound' = [bound EXCEPT ![u] = Engine]
    /\ issued' = issued + 1
    /\ UNCHANGED <<dirty, db, db0, calls, failed, rolled, exc, ret, logged>>

get_session(u) == u = "request" /\ Acquire(u, "get_session")

get_session_for_queue(u) == u = "queue" /\ Acquire(u, "get_session_for_queue")

\* the caller mutates the entity inside the scope
Mutate(u) ==
    /\ upc[u] = "body"
    /\ ~dirty[u]
    /\ \E d \in Data :
        /\ d # mem[u].data
        /\ mem' = [mem EXCEPT ![u].data = d]
    /\ dirty' = [dirty EXCEPT ![u] = TRUE]
    /\ UNCHANGED <<upc, via, sess, db, db0, calls, failed, rolled, exc, ret, logged>>
    /\ UNCHANGED <<sid, bound, issued>>

\* the caller's code raises inside the scope, or leaves it without committing
BodyEnds(u) ==
    /\ upc[u] = "body"
    /\ \E e \in {NoExc, CallerError} :
        /\ exc' = [exc EXCEPT ![u] = e]
        /\ upc' = [upc EXCEPT ![u] = IF e = NoExc THEN "returned" ELSE "raised"]
    /\ UNCHANGED <<via, sess, dirty, mem, db, db0, calls, failed, rolled, ret, logged>>
    /\ UNCHANGED <<sid, bound, issued>>

\* the row an UPDATE of the entity's fields leaves committed
CommittedRow(u) ==
    IF dirty[u] THEN Row(mem[u].data, db[u].gen + 1) ELSE db[u]

\* session.py:88-90: enter the try block and await db.commit()
Commit(u) ==
    /\ upc[u] = "body"
    /\ db0' = [db0 EXCEPT ![u] = db[u]]
    /\ calls' = [calls EXCEPT ![u] = Append(@, "commit")]
    /\ \E o \in Outcomes :
        CASE o = "ok" ->
                /\ db' = [db EXCEPT ![u] = CommittedRow(u)]
                /\ dirty' = [dirty EXCEPT ![u] = FALSE]
                /\ upc' = [upc EXCEPT ![u] = "committed"]
                /\ UNCHANGED <<failed, exc>>
          [] o = "raises" ->
                /\ failed' = [failed EXCEPT ![u] = "commit"]
                /\ upc' = [upc EXCEPT ![u] = "except"]
                /\ UNCHANGED <<db, dirty, exc>>
    /\ UNCHANGED <<via, sess, mem, rolled, ret, logged>>
    /\ UNCHANGED <<sid, bound, issued>>

\* a refresh that reloads nothing
RefreshedEntityStale(u) == mem[u]

\* the fields db.refresh(entity) loads
RefreshedEntity(u) == db[u]

\* session.py:91-94: await db.refresh(entity), log it, return entity
Refresh(u) ==
    /\ upc[u] = "committed"
    /\ calls' = [calls EXCEPT ![u] = Append(@, "refresh")]
    /\ \E o \in Outcomes :
        CASE o = "ok" ->
                /\ mem' = [mem EXCEPT ![u] = RefreshedEntity(u)]
                /\ ret' = [ret EXCEPT ![u] = u]
                /\ upc' = [upc EXCEPT ![u] = "returned"]
                /\ UNCHANGED <<failed, exc>>
          [] o = "raises" ->
                /\ failed' = [failed EXCEPT ![u] = "refresh"]
                /\ upc' = [upc EXCEPT ![u] = "except"]
                /\ UNCHANGED <<mem, ret, exc>>
    /\ UNCHANGED <<via, sess, dirty, db, db0, rolled, logged>>
    /\ UNCHANGED <<sid, bound, issued>>

\* session.py:95-101: log the error, await db.rollback(), raise the HTTP error
Except(u) ==
    /\ upc[u] = "except"
    /\ logged' = [logged EXCEPT ![u] = InternalError.detail]
    /\ calls' = [calls EXCEPT ![u] = Append(@, "rollback")]
    /\ upc' = [upc EXCEPT ![u] = "raised"]
    /\ \E o \in Outcomes :
        CASE o = "ok" ->
                /\ rolled' = [rolled EXCEPT ![u] = TRUE]
                /\ dirty' = [dirty EXCEPT ![u] = FALSE]
                /\ exc' = [exc EXCEPT ![u] = HTTPError]
          [] o = "raises" ->
                /\ exc' = [exc EXCEPT ![u] = InternalError]
                /\ UNCHANGED <<rolled, dirty>>
    /\ UNCHANGED <<via, sess, mem, db, db0, failed, ret>>
    /\ UNCHANGED <<sid, bound, issued>>

\* a provider that closes the session on normal exit only
SessionAfterScopeLeaky(raised) == IF raised THEN "open" ELSE "closed"

\* the session's state once `async with async_session()` has been left;
\* raised tells whether an exception is passing through
SessionAfterScope(raised) == "closed"

\* a provider that commits what the session holds when the scope is left
RowAutoCommitted(u) ==
    IF dirty[u] THEN Row(mem[u].data, db[u].gen + 1) ELSE db[u]

\* the committed row once the scope is left: session.py:55-57 / 68-70 only
\* close the session, which discards what was not committed
RowAfterScope(u) == db[u]

\* session.py:55-57 / 68-70: the scope that acquired the session exits
ScopeExit(u) ==
    /\ upc[u] \in {"returned", "raised"}
    /\ sess' = [sess EXCEPT ![u] = SessionAfterScope(upc[u] = "raised")]
    /\ db' = [db EXCEPT ![u] = RowAfterScope(u)]
    /\ dirty' = [dirty EXCEPT ![u] = FALSE]
    /\ upc' = [upc EXCEPT ![u] = "exited"]
    /\ UNCHANGED <<via, mem, db0, calls, failed, rolled, exc, ret, logged>>
    /\ UNCHANGED <<sid, bound, issued>>

DbNext ==
    \/ \E u \in Units : get_session(u) /\ UNCHANGED <<fsVars, schedVars, cfgVars>>
    \/ \E u \in Units : get_session_for_queue(u) /\ UNCHANGED <<fsVars, schedVars, cfgVars>>
    \/ \E u \in Units : Mutate(u) /\ UNCHANGED <<fsVars, schedVars, cfgVars>>
    \/ \E u \in Units : BodyEnds(u) /\ UNCHANGED <<fsVars, schedVars, cfgVars>>
    \/ \E u \in Units : Commit(u) /\ UNCHANGED <<fsVars, schedVars, cfgVars>>
    \/ \E u \in Units : Refresh(u) /\ UNCHANGED <<fsVars, schedVars, cfgVars>>
    \/ \E u \in Units : Except(u) /\ UNCHANGED <<fsVars, schedVars, cfgVars>>
    \/ \E u \in Units : ScopeExit(u) /\ UNCHANGED <<fsVars, schedVars, cfgVars>>

(* ------------- app/database/session.py: import of the module ------------ *)

\* Python's None, as os.getenv returns it for a variable that is not set
None == "<None>"

\* session.py:20-24: the five discrete parameters, in the order of line 26
Params == <<"DATABASE_USER", "DATABASE_PASSWORD", "DATABASE_HOST", "DATABASE_PORT",
            "DATABASE_NAME">>

EnvNames == {"DATABASE_URL"} \cup {Params[i] : i \in 1..Len(Params)}

\* what a variable holds when it is set to something
SetValue(name) ==
    CASE name = "DATABASE_URL" -> "postgresql+asyncpg://given:pw@dbhost:5433/given"
      [] name = "DATABASE_USER" -> "cempa"
      [] name = "DATABASE_PASSWORD" -> "secret"
      [] name = "DATABASE_HOST" -> "localhost"
      [] name = "DATABASE_PORT" -> "5432"
      [] name = "DATABASE_NAME" -> "gra"

\* a variable is not set, set to the empty string, or set to a value
EnvValues(name) == {None, "", SetValue(name)}

\* bool(v) for None and for a str
Truthy(v) == v # None /\ v # ""

\* session.py:26: all([DB_USER, DB_PASSWORD, DB_HOST, DB_PORT, DB_NAME])
AllParams(e) == \A i \in 1..Len(Params) : Truthy(e[Params[i]])

\* session.py:29: the f-string
BuiltUrl(e) ==
    "postgresql+asyncpg://" \o e["DATABASE_USER"] \o ":" \o e["DATABASE_PASSWORD"]
        \o "@" \o e["DATABASE_HOST"] \o ":" \o e["DATABASE_PORT"]
        \o "/" \o e["DATABASE_NAME"]

\* session.py:33: create_async_engine parses its URL argument and raises
\* ArgumentError on a string it cannot parse, the empty string among them
Parses(url) == url # ""

CfgQuiet ==
    /\ env = [n \in EnvNames |-> SetValue(n)]
    /\ cpc = "ready"
    /\ DATABASE_URL = SetValue("DATABASE_URL")
    /\ cerr = "none"
    /\ engine = SetValue("DATABASE_URL")

\* the process starts with any environment
CfgInit ==
    /\ env \in [EnvNames -> UNION {EnvValues(n) : n \in EnvNames}]
    /\ \A n \in EnvNames : env[n] \in EnvValues(n)
    /\ cpc = "start"
    /\ DATABASE_URL = None
    /\ cerr = "none"
    /\ engine = None

\* session.py:16-29: DATABASE_URL is read; if it is None it is built from the
\* five parameters, or ValueError is raised when one of them is missing
ResolveUrl ==
    /\ cpc = "start"
    /\ IF env["DATABASE_URL"] # None
       THEN /\ DATABASE_URL' = env["DATABASE_URL"]
            /\ cpc' = "resolved"
            /\ UNCHANGED cerr
       ELSE IF ~AllParams(env)
       THEN /\ cerr' = "ValueError"
            /\ cpc' = "failed"
            /\ UNCHANGED DATABASE_URL
       ELSE /\ DATABASE_URL' = BuiltUrl(env)
            /\ cpc' = "resolved"
            /\ UNCHANGED cerr
    /\ UNCHANGED <<env, engine>>

\* session.py:33-45: create_async_engine(DATABASE_URL, ...), then the factory
create_async_engine ==
    /\ cpc = "resolved"
    /\ IF Parses(DATABASE_URL)
       THEN /\ engine' = DATABASE_URL
            /\ cpc' = "ready"
            /\ UNCHANGED cerr
       ELSE /\ cerr' = "ArgumentError"
            /\ cpc' = "failed"
            /\ UNCHANGED engine
    /\ UNCHANGED <<env, DATABASE_URL>>

CfgNext ==
    \/ ResolveUrl /\ UNCHANGED <<dbVars, fsVars, schedVars>>
    \/ create_async_engine /\ UNCHANGED <<dbVars, fsVars, schedVars>>

(* ========================= app/etl/extractor.py ======================== *)

Names == 1..MaxEntries

\* what a name in <root>/cempa can be: nothing, a regular file, a subdirectory
\* (or any other non-file), or a symlink to a regular file, to a directory, to
\* nothing
Kinds == {"none", "file", "dir", "link_file", "link_dir", "link_dangling"}

\* os.path.isfile without following symlinks
IsFileNoFollow(k) == k = "file"

\* a test that only spares directories
IsFileNotDir(k) == k \notin {"none", "dir"}

\* os.path.isfile(file_path), extractor.py:26: follows symlinks
IsFile(k) == k \in {"file", "link_file"}

\* an except clause that lets the error go on
OnCleanupErrorReraise == "raised"

\* extractor.py:31-32: where control goes once the except clause has logged
OnCleanupError == "ingest"

\* no invocation came before
NoRun == [end |-> "none", deleted |-> {}]

\* a run that creates the directory whether or not it exists
NeedsCreateAlways(w) == TRUE

\* extractor.py:18: if not os.path.exists(delete_dir)
NeedsCreate(w) == w = "absent"

\* extractor.py:19: os.makedirs(delete_dir) creates the directory or raises; on
\* a directory that exists it raises FileExistsError
Makedirs(w) == IF w = "absent" THEN Outcomes ELSE {"raises"}

FsQuiet ==
    /\ rootSet = TRUE
    /\ wdir = "absent"
    /\ ents = [n \in Names |-> "none"]
    /\ wdir0 = wdir
    /\ ents0 = ents
    /\ fpc = "idle"
    /\ todo = {}
    /\ deleted = {}
    /\ warned = {}
    /\ created = FALSE
    /\ errLogged = FALSE
    /\ fsFailed = "none"
    /\ fexc = "none"
    /\ runs = 0
    /\ prev = NoRun

\* the workspace as a previous run, or anything else, may have left it
FsInit ==
    /\ rootSet \in BOOLEAN
    /\ wdir \in {"absent", "dir"}
    /\ ents \in [Names -> Kinds]
    /\ wdir = "absent" => \A n \in Names : ents[n] = "none"
    /\ wdir0 = wdir
    /\ ents0 = ents
    /\ fpc = "idle"
    /\ todo = {}
    /\ deleted = {}
    /\ warned = {}
    /\ created = FALSE
    /\ errLogged = FALSE
    /\ fsFailed = "none"
    /\ fexc = "none"
    /\ runs = 0
    /\ prev = NoRun

\* extractor.py:13-22: join the path, create the directory when it is missing
Enter ==
    /\ fpc = "idle"
    /\ runs < MaxRuns
    /\ runs' = runs + 1
    /\ wdir0' = wdir
    /\ ents0' = ents
    /\ todo' = {}
    /\ deleted' = {}
    /\ warned' = {}
    /\ errLogged' = FALSE
    /\ IF ~rootSet
       THEN \* os.path.join(None, "cempa") raises TypeError
            /\ fexc' = "TypeError"
            /\ fpc' = "raised"
            /\ fsFailed' = "none"
            /\ UNCHANGED <<wdir, created>>
       ELSE IF NeedsCreate(wdir)
       THEN \E o \in Makedirs(wdir) :
                IF o = "ok"
                THEN /\ wdir' = "dir"
                     /\ created' = TRUE
                     /\ fpc' = "listing"
                     /\ fsFailed' = "none"
                     /\ fexc' = "none"
                ELSE \* os.makedirs raises outside the try block
                     /\ fexc' = "OSError"
                     /\ fsFailed' = "makedirs"
                     /\ fpc' = "raised"
                     /\ UNCHANGED <<wdir, created>>
       ELSE /\ fpc' = "listing"
            /\ created' = FALSE
            /\ fsFailed' = "none"
            /\ fexc' = "none"
            /\ UNCHANGED wdir
    /\ UNCHANGED <<rootSet, ents, prev>>

\* extractor.py:23-24 (and 31-32): os.listdir(delete_dir)
List ==
    /\ fpc = "listing"
    /\ \E o \in Outcomes :
        IF o = "ok"
        THEN /\ todo' = {n \in Names : ents[n] # "none"}
             /\ fpc' = "loop"
             /\ UNCHANGED <<errLogged, fsFailed>>
        ELSE /\ errLogged' = TRUE
             /\ fsFailed' = "listdir"
             /\ fpc' = OnCleanupError
             /\ UNCHANGED todo
    /\ UNCHANGED <<rootSet, wdir, ents, wdir0, ents0, deleted, warned, created, fexc, runs, prev>>

\* extractor.py:24-32: one turn of the loop, on any entry not yet visited
\* (os.listdir returns the names in arbitrary order)
Visit(n) ==
    /\ fpc = "loop"
    /\ n \in todo
    /\ IF IsFile(ents[n])
       THEN \E o \in Outcomes :
                IF o = "ok"
                THEN /\ ents' = [ents EXCEPT ![n] = "none"]
                     /\ deleted' = deleted \cup {n}
                     /\ todo' = todo \ {n}
                     /\ UNCHANGED <<warned, errLogged, fsFailed, fpc>>
                ELSE \* os.remove raises: the except clause ends the loop
                     /\ errLogged' = TRUE
                     /\ fsFailed' = "remove"
                     /\ fpc' = OnCleanupError
                     /\ todo' = {}
                     /\ UNCHANGED <<ents, deleted, warned>>
       ELSE /\ warned' = warned \cup {n}
            /\ todo' = todo \ {n}
            /\ UNCHANGED <<ents, deleted, errLogged, fsFailed, fpc>>
    /\ UNCHANGED <<rootSet, wdir, wdir0, ents0, created, fexc, runs, prev>>

\* the for loop has visited every name listed
LoopEnd ==
    /\ fpc = "loop"
    /\ todo = {}
    /\ fpc' = "ingest"
    /\ UNCHANGED <<rootSet, wdir, ents, wdir0, ents0, todo, deleted, warned, created,
                   errLogged, fsFailed, fexc, runs, prev>>

\* extractor.py:34-35: the download placeholder; the coroutine returns
Ingest ==
    /\ fpc = "ingest"
    /\ fpc' = "done"
    /\ UNCHANGED <<rootSet, wdir, ents, wdir0, ents0, todo, deleted, warned, created,
                   errLogged, fsFailed, fexc, runs, prev>>

\* extractor.py:39-43 / app_factory.py:21-25: DownloadCEMPAData is invoked again
Again ==
    /\ fpc \in {"done", "raised"}
    /\ runs < MaxRuns
    /\ fpc' = "idle"
    /\ prev' = [end |-> IF fpc = "raised" THEN "raised"
                        ELSE IF fsFailed = "none" THEN "clean" ELSE "failed",
                deleted |-> deleted]
    /\ UNCHANGED <<rootSet, wdir, ents, wdir0, ents0, todo, deleted, warned, created,
                   errLogged, fsFailed, fexc, runs>>

FsNext ==
    \/ Enter /\ UNCHANGED <<dbVars, schedVars, cfgVars>>
    \/ List /\ UNCHANGED <<dbVars, schedVars, cfgVars>>
    \/ \E n \in Names : Visit(n) /\ UNCHANGED <<dbVars, schedVars, cfgVars>>
    \/ LoopEnd /\ UNCHANGED <<dbVars, schedVars, cfgVars>>
    \/ Ingest /\ UNCHANGED <<dbVars, schedVars, cfgVars>>
    \/ Again /\ UNCHANGED <<dbVars, schedVars, cfgVars>>

(* ========================== app/app_factory.py ========================= *)

Apps == 1..NumApps

\* the clock counts minutes since midnight of day 0
DayMinutes == 24 * 60
Hour(t) == (t % DayMinutes) \div 60
Minute(t) == t % 60

\* the times of day at which the clock is read: 00:00, 03:29, 03:30, 03:31, 12:00
ReadingTimes == {0, 209, 210, 211, 720}
Readings == {d * DayMinutes + m : d \in 0..(MaxDays - 1), m \in ReadingTimes}

\* app_factory.py:24
JobId == "DailyCEMPADataDownload"

\* CronTrigger(hour=h, minute=m) matches t
Matches(t, h, m) == Hour(t) = h /\ Minute(t) = m

\* a trigger that never fires at the time it is asked about
NextFireStrict(t, h, m) ==
    LET today == (t \div DayMinutes) * DayMinutes + h * 60 + m
    IN  IF today > t THEN today ELSE today + DayMinutes

\* CronTrigger.get_next_fire_time: the first time at or after t that matches
NextFire(t, h, m) ==
    LET today == (t \div DayMinutes) * DayMinutes + h * 60 + m
    IN  IF today >= t THEN today ELSE today + DayMinutes

\* the run time a wakeup at t submits for a due job: with coalescing, the
\* latest matching time that is not after t
PrevFire(t, h, m) ==
    LET today == (t \div DayMinutes) * DayMinutes + h * 60 + m
    IN  IF today <= t THEN today ELSE today - DayMinutes

\* the job the lifespan of a registers, app_factory.py:20-25; once the run time
\* of this minute has been dispatched the clock is past the trigger's instant
Job(a) == [id |-> JobId, hour |-> TriggerHour, minute |-> TriggerMinute,
           def |-> a,
           next |-> NextFire(IF now \in firedAt THEN now + 1 ELSE now,
                             TriggerHour, TriggerMinute)]

\* app_factory.py:21-25 does not pass replace_existing: the default
ReplaceExisting == FALSE

\* an executor that lets a second instance of a job start
MaxInstancesTwo == 1 + 1

\* app_factory.py:21-25 does not pass max_instances: the default
MaxInstances == 1

\* shutdown that waits for the running jobs
ShutdownWaitBlocking == TRUE

\* app_factory.py:33: scheduler.shutdown(wait=False)
ShutdownWait == FALSE

ShutdownStep == IF ShutdownWait THEN "shutdown(wait=True)" ELSE "shutdown(wait=False)"

\* the ways DownloadCEMPAData ends as a job: it returns, or (ROOT_DIR unset,
\* os.makedirs failing) it raises
DownloadOutcomes == {"returned", "raised"}

HasId(jobs, id) == \E i \in 1..Len(jobs) : jobs[i].id = id

\* the job store once a job has been added over one of the same id
Replaced(jobs, job) == [i \in 1..Len(jobs) |-> IF jobs[i].id = job.id THEN job ELSE jobs[i]]

\* an executor that drops a job whose occurrence raised
AfterJobErrorUnschedule(jobs) == <<>>

\* the job store after an occurrence raised: the executor logs the error and
\* the job stays scheduled
AfterJobError(jobs) == jobs

\* a startup hook that logs the failure of create_all and goes on
AfterSchemaErrorIgnored == "schema"

\* app_factory.py:16-17: nothing catches what create_all raises, the lifespan ends
AfterSchemaError == "failed"

\* a shutdown whose body runs before the tasks queued ahead of it
HadTheirTurnUnordered(q) == TRUE

\* the event loop runs its callbacks in the order they were queued: when the
\* body of scheduler.shutdown() runs, every task created before the call had
\* its turn, and only tasks created after it (win) are still to start
HadTheirTurn(q) == \A i \in 1..Len(q) : q[i].win

\* extractor.py:13-32 has no await: while DownloadCEMPAData executes, nothing
\* else runs on the event loop
LoopFree == ~held

\* the run time at of an instance was missed when the task gets to it at t:
\* misfire_grace_time is left at its default of one second
Missed(at, t) == t > at

SchedQuiet ==
    /\ lpc = [a \in Apps |-> "new"]
    /\ steps = [a \in Apps |-> <<>>]
    /\ lerr = [a \in Apps |-> "none"]
    /\ schedState = "stopped"
    /\ store = <<>>
    /\ lastReg = 0
    /\ startedAt = 0
    /\ inst = <<>>
    /\ firedAt = {}
    /\ ranAt = {}
    /\ failedAt = {}
    /\ cancelled = {}
    /\ disposed = 0
    /\ now = 0
    /\ stopping = FALSE
    /\ held = FALSE
    /\ req = "none"
    /\ reqAt = 0

\* app_factory.py:12: the scheduler exists, stopped and empty
SchedInit ==
    /\ lpc = [a \in Apps |-> "new"]
    /\ steps = [a \in Apps |-> <<>>]
    /\ lerr = [a \in Apps |-> "none"]
    /\ schedState = "stopped"
    /\ store = <<>>
    /\ lastReg = 0
    /\ startedAt = 0
    /\ inst = <<>>
    /\ firedAt = {}
    /\ ranAt = {}
    /\ failedAt = {}
    /\ cancelled = {}
    /\ disposed = 0
    /\ now = 0
    /\ stopping = FALSE
    /\ held = FALSE
    /\ req = "none"
    /\ reqAt = 0

\* app_factory.py:16-17: the schema is created inside engine.begin()
CreateSchema(a) ==
    /\ lpc[a] = "new"
    /\ LoopFree
    /\ \E o \in Outcomes :
        IF o = "ok"
        THEN /\ lpc' = [lpc EXCEPT ![a] = "schema"]
             /\ steps' = [steps EXCEPT ![a] = Append(@, "create_all")]
             /\ UNCHANGED lerr
        ELSE /\ lpc' = [lpc EXCEPT ![a] = AfterSchemaError]
             /\ lerr' = [lerr EXCEPT ![a] = "DBAPIError"]
             /\ UNCHANGED steps
    /\ UNCHANGED <<schedState, store, lastReg, startedAt, inst, firedAt, ranAt, failedAt,
                   cancelled, disposed, now, stopping, held, req, reqAt>>

\* app_factory.py:19-30: add_job, start, yield; no await lies between them
RegisterAndStart(a) ==
    /\ lpc[a] = "schema"
    /\ LoopFree
    /\ lastReg' = a
    /\ LET conflict == HasId(store, JobId) /\ ~ReplaceExisting
           added == IF HasId(store, JobId) THEN Replaced(store, Job(a))
                                           ELSE Append(store, Job(a))
       IN  CASE conflict /\ schedState = "running" ->
                    \* add_job goes to the job store at once, and raises
                    /\ lerr' = [lerr EXCEPT ![a] = "ConflictingIdError"]
                    /\ lpc' = [lpc EXCEPT ![a] = "failed"]
                    /\ UNCHANGED <<steps, store, schedState, startedAt>>
             [] conflict /\ schedState = "stopped" ->
                    \* add_job leaves the job pending, start() raises on adding it
                    /\ lerr' = [lerr EXCEPT ![a] = "ConflictingIdError"]
                    /\ lpc' = [lpc EXCEPT ![a] = "failed"]
                    /\ steps' = [steps EXCEPT ![a] = Append(@, "add_job")]
                    /\ UNCHANGED <<store, schedState, startedAt>>
             [] ~conflict /\ schedState = "running" ->
                    \* the job is stored, start() raises on a running scheduler
                    /\ store' = added
                    /\ steps' = [steps EXCEPT ![a] = Append(@, "add_job")]
                    /\ lerr' = [lerr EXCEPT ![a] = "SchedulerAlreadyRunningError"]
                    /\ lpc' = [lpc EXCEPT ![a] = "failed"]
                    /\ UNCHANGED <<schedState, startedAt>>
             [] ~conflict /\ schedState = "stopped" ->
                    \* the job is pending, start() stores it and starts the timer
                    /\ store' = added
                    /\ schedState' = "running"
                    /\ startedAt' = now
                    /\ steps' = [steps EXCEPT ![a] = @ \o <<"add_job", "start", "serve">>]
                    /\ lpc' = [lpc EXCEPT ![a] = "serving"]
                    /\ UNCHANGED lerr
    /\ UNCHANGED <<inst, firedAt, ranAt, failedAt, cancelled, disposed, now, stopping,
                   held, req, reqAt>>

\* app_factory.py:32-33: after the yield, scheduler.shutdown(wait=False): the
\* call queues the scheduler's shutdown on the event loop and returns
Shutdown(a) ==
    /\ lpc[a] = "serving"
    /\ LoopFree
    /\ stopping' = TRUE
    /\ steps' = [steps EXCEPT ![a] = Append(@, ShutdownStep)]
    /\ lpc' = [lpc EXCEPT ![a] = "disposing"]
    /\ UNCHANGED <<lerr, schedState, store, lastReg, startedAt, inst, firedAt, ranAt,
                   failedAt, cancelled, disposed, now, held, req, reqAt>>

\* the queued body of scheduler.shutdown(wait=False), app_factory.py:33: the
\* scheduler stops, its job store is emptied, its timer is cancelled and its
\* executor cancels the job tasks that have not finished
SchedulerShutdown ==
    /\ stopping
    /\ LoopFree
    /\ schedState = "running"
    /\ HadTheirTurn(inst)
    /\ stopping' = FALSE
    /\ schedState' = "stopped"
    /\ store' = <<>>
    /\ inst' = <<>>
    /\ cancelled' = cancelled \cup {inst[i].at : i \in 1..Len(inst)}
    /\ UNCHANGED <<lpc, steps, lerr, lastReg, startedAt, firedAt, ranAt, failedAt,
                   disposed, now, held, req, reqAt>>

\* app_factory.py:34: engine.dispose() completes; the lifespan is over
Dispose(a) ==
    /\ lpc[a] = "disposing"
    /\ LoopFree
    /\ disposed' = disposed + 1
    /\ steps' = [steps EXCEPT ![a] = Append(@, "dispose")]
    /\ lpc' = [lpc EXCEPT ![a] = "down"]
    /\ UNCHANGED <<lerr, schedState, store, lastReg, startedAt, inst, firedAt, ranAt,
                   failedAt, cancelled, now, stopping, held, req, reqAt>>

Due == schedState = "running" /\ \E i \in 1..Len(store) : store[i].next <= now

\* the scheduler's timer: every due job is submitted to the executor, unless
\* the job has max_instances instances there already, and is given its next
\* run time
Wakeup ==
    /\ Due
    /\ LoopFree
    /\ LET due == {j \in 1..Len(store) : store[j].next <= now}
           runTimes == {PrevFire(now, store[j].hour, store[j].minute) : j \in due}
           room == Len(inst) < MaxInstances
       IN  /\ inst' = IF room
                      THEN Append(inst, [at |-> CHOOSE t \in runTimes : TRUE, win |-> stopping])
                      ELSE inst
           /\ firedAt' = IF room THEN firedAt \cup runTimes ELSE firedAt
    /\ store' = [i \in 1..Len(store) |->
                    IF store[i].next <= now
                    THEN [store[i] EXCEPT !.next = NextFire(now + 1, store[i].hour, store[i].minute)]
                    ELSE store[i]]
    /\ UNCHANGED <<lpc, steps, lerr, schedState, lastReg, startedAt, ranAt, failedAt,
                   cancelled, disposed, now, stopping, held, req, reqAt>>

\* the job's task gets its turn and runs DownloadCEMPAData, which has no
\* await: start to end in one step of the event loop. A task created after
\* shutdown was called has its turn after the queued shutdown
RunJob ==
    /\ inst # <<>>
    /\ LoopFree
    /\ ~Head(inst).win
    /\ inst' = Tail(inst)
    /\ IF Missed(Head(inst).at, now)
       THEN UNCHANGED <<ranAt, failedAt, store>>
       ELSE /\ ranAt' = ranAt \cup {now}
            /\ \E o \in DownloadOutcomes :
                IF o = "raised"
                THEN /\ failedAt' = failedAt \cup {now}
                     /\ store' = AfterJobError(store)
                ELSE UNCHANGED <<failedAt, store>>
    /\ UNCHANGED <<lpc, steps, lerr, schedState, lastReg, startedAt, firedAt, cancelled,
                   disposed, now, stopping, held, req, reqAt>>

\* time passes until the next reading of the clock; the timer, a created
\* task, a queued shutdown and a waiting request do not wait that long when
\* the loop is free
Tick ==
    /\ ~Due
    /\ inst = <<>>
    /\ ~stopping
    /\ LoopFree
    /\ req = "none"
    /\ \E t \in Readings :
        /\ t > now
        /\ \A x \in Readings : x > now => t <= x
        /\ now' = t
    /\ UNCHANGED <<lpc, steps, lerr, schedState, store, lastReg, startedAt, inst, firedAt,
                   ranAt, failedAt, cancelled, disposed, stopping, held, req, reqAt>>

SchedNext ==
    \/ \E a \in Apps : CreateSchema(a) /\ UNCHANGED <<dbVars, fsVars, cfgVars>>
    \/ \E a \in Apps : RegisterAndStart(a) /\ UNCHANGED <<dbVars, fsVars, cfgVars>>
    \/ \E a \in Apps : Shutdown(a) /\ UNCHANGED <<dbVars, fsVars, cfgVars>>
    \/ SchedulerShutdown /\ UNCHANGED <<dbVars, fsVars, cfgVars>>
    \/ \E a \in Apps : Dispose(a) /\ UNCHANGED <<dbVars, fsVars, cfgVars>>
    \/ Wakeup /\ UNCHANGED <<dbVars, fsVars, cfgVars>>
    \/ RunJob /\ UNCHANGED <<dbVars, fsVars, cfgVars>>
    \/ Tick /\ UNCHANGED <<dbVars, fsVars, cfgVars>>

(* ------------- the event loop while the application serves -------------- *)

\* the job's task gets its turn: DownloadCEMPAData starts executing, unless
\* the run time was missed
BeginRun ==
    /\ inst # <<>>
    /\ LoopFree
    /\ IF Missed(Head(inst).at, now)
       THEN /\ inst' = Tail(inst)
            /\ UNCHANGED <<ranAt, held>>
       ELSE /\ held' = TRUE
            /\ ranAt' = ranAt \cup {now}
            /\ UNCHANGED inst
    /\ UNCHANGED <<lpc, steps, lerr, schedState, store, lastReg, startedAt, firedAt,
                   failedAt, cancelled, disposed, now, stopping, req, reqAt>>

\* the clock moves on while an instance of the job is in the executor: the
\* os.listdir / os.remove calls of extractor.py:24-27 take their time, or the
\* task is kept waiting for its turn
Elapse ==
    /\ inst # <<>>
    /\ \E t \in Readings :
        /\ t > now
        /\ \A x \in Readings : x > now => t <= x
        /\ now' = t
    /\ UNCHANGED <<lpc, steps, lerr, schedState, store, lastReg, startedAt, inst, firedAt,
                   ranAt, failedAt, cancelled, disposed, stopping, held, req, reqAt>>

\* DownloadCEMPAData returns or raises; the executor drops the instance
EndRun ==
    /\ held
    /\ held' = FALSE
    /\ inst' = Tail(inst)
    /\ \E o \in DownloadOutcomes :
        IF o = "raised"
        THEN /\ failedAt' = failedAt \cup {Head(inst).at}
             /\ store' = AfterJobError(store)
        ELSE UNCHANGED <<failedAt, store>>
    /\ UNCHANGED <<lpc, steps, lerr, schedState, lastReg, startedAt, firedAt, ranAt,
                   cancelled, disposed, now, stopping, req, reqAt>>

\* app_factory.py:47-49: a GET /health request reaches the serving process
Request ==
    /\ req = "none"
    /\ \E a \in Apps : lpc[a] = "serving"
    /\ req' = "waiting"
    /\ reqAt' = now
    /\ UNCHANGED <<lpc, steps, lerr, schedState, store, lastReg, startedAt, inst, firedAt,
                   ranAt, failedAt, cancelled, disposed, now, stopping, held>>

\* app_factory.py:47-49: the event loop runs health(), which answers "ok"
health ==
    /\ req = "waiting"
    /\ LoopFree
    /\ req' = "none"
    /\ UNCHANGED <<lpc, steps, lerr, schedState, store, lastReg, startedAt, inst, firedAt,
                   ranAt, failedAt, cancelled, disposed, now, stopping, held, reqAt>>

LoopNext ==
    \/ \E a \in Apps : CreateSchema(a) /\ UNCHANGED <<dbVars, fsVars, cfgVars>>
    \/ \E a \in Apps : RegisterAndStart(a) /\ UNCHANGED <<dbVars, fsVars, cfgVars>>
    \/ Wakeup /\ UNCHANGED <<dbVars, fsVars, cfgVars>>
    \/ BeginRun /\ UNCHANGED <<dbVars, fsVars, cfgVars>>
    \/ Elapse /\ UNCHANGED <<dbVars, fsVars, cfgVars>>
    \/ EndRun /\ UNCHANGED <<dbVars, fsVars, cfgVars>>
    \/ Request /\ UNCHANGED <<dbVars, fsVars, cfgVars>>
    \/ health /\ UNCHANGED <<dbVars, fsVars, cfgVars>>
    \/ Tick /\ UNCHANGED <<dbVars, fsVars, cfgVars>>

DbQuiet ==
    /\ upc = [u \in Units |-> "idle"]
    /\ via = [u \in Units |-> "none"]
    /\ sess = [u \in Units |-> "none"]
    /\ dirty = [u \in Units |-> FALSE]
    /\ mem = [u \in Units |-> Row(0, 0)]
    /\ db = [u \in Units |-> Row(0, 0)]
    /\ db0 = db
    /\ calls = [u \in Units |-> <<>>]
    /\ failed = [u \in Units |-> "none"]
    /\ rolled = [u \in Units |-> FALSE]
    /\ exc = [u \in Units |-> NoExc]
    /\ ret = [u \in Units |-> "none"]
    /\ logged = [u \in Units |-> "none"]
    /\ sid = [u \in Units |-> 0]
    /\ bound = [u \in Units |-> "none"]
    /\ issued = 0

\* the session provider and commit_and_refresh, with the rest of the program at rest
DbOnlyInit == DbInit /\ FsQuiet /\ SchedQuiet /\ CfgQuiet

SpecDb == DbOnlyInit /\ [][DbNext]_vars

\* DownloadCEMPAData, with the rest of the program at rest
FsOnlyInit == FsInit /\ DbQuiet /\ SchedQuiet /\ CfgQuiet

SpecFs == FsOnlyInit /\ [][FsNext]_vars

SchedOnlyInit == SchedInit /\ DbQuiet /\ FsQuiet /\ CfgQuiet

\* the lifespan hooks, the scheduler and the clock, with the rest at rest
SpecSched == SchedOnlyInit /\ [][SchedNext]_vars

\* the serving phase, with runs of the job that take time
SpecLoop == SchedOnlyInit /\ [][LoopNext]_vars

\* the whole program
\* the import of app/database/session.py, with the rest of the program at rest
CfgOnlyInit == CfgInit /\ DbQuiet /\ FsQuiet /\ SchedQuiet

SpecCfg == CfgOnlyInit /\ [][CfgNext]_vars

Init == DbInit /\ FsInit /\ SchedInit /\ CfgInit

Next == DbNext \/ FsNext \/ SchedNext \/ LoopNext \/ CfgNext

Spec == Init /\ [][Next]_vars

(* ----------------------- claims: session.py ----------------------------- *)

\* commit_and_refresh has been left by an exception after commit or refresh raised
CallFailed(u) == failed[u] # "none" /\ upc[u] \in {"raised", "exited"}

\* C1: whenever commit or refresh raised, the session was rolled back and the
\* caller got exactly the 400 "Error updating entity" error, never a raw one
C1_FixedErrorOnly ==
    \A u \in Units : CallFailed(u) => rolled[u] /\ exc[u] = HTTPError

\* C2: whenever commit_and_refresh failed, the committed row equals the row
\* committed before the call
C2_FailedCallPersistsNothing ==
    \A u \in Units : CallFailed(u) => db[u] = db0[u]

\* C3: when commit and refresh both succeed, commit came first, refresh second,
\* rollback was never called, and the returned entity is the caller's entity with
\* its in-memory fields equal to the committed row
C3_SuccessReturnsRefreshed ==
    \A u \in Units :
        /\ ret[u] # "none" =>
                /\ calls[u] = <<"commit", "refresh">>
                /\ ~rolled[u]
                /\ ret[u] = u
                /\ mem[u] = db[u]
        /\ (\E i \in 1..Len(calls[u]) : calls[u][i] = "refresh") =>
                /\ calls[u][1] = "commit"
                /\ failed[u] # "commit"

\* a call returned after persisting a mutation
C3_Witness ==
    \E u \in Units : ret[u] = u /\ db[u] # db0[u] /\ upc[u] = "returned"

\* C4: a session is closed once the scope that acquired it has exited, by return
\* or by exception, for either provider; an open session belongs to a running unit
C4_SessionClosedOnExit ==
    \A u \in Units :
        /\ upc[u] = "exited" => sess[u] = "closed"
        /\ sess[u] = "open" => upc[u] \in {"body", "committed", "except", "returned", "raised"}

\* both providers' scopes have exited, one by an exception and one by return
C4_Witness ==
    /\ upc["request"] = "exited" /\ exc["request"] # NoExc
    /\ upc["queue"] = "exited" /\ exc["queue"] = NoExc
    /\ via["request"] = "get_session" /\ via["queue"] = "get_session_for_queue"

\* C17: every invocation of a provider yields a session of its own: two units
\* of work never hold the same session object, and every session yielded is
\* bound to the one engine of the process
C17_SessionPerUnit ==
    /\ \A u, v \in Units : (u # v /\ sid[u] # 0 /\ sid[v] # 0) => sid[u] # sid[v]
    /\ \A u \in Units : sid[u] # 0 => (bound[u] = Engine /\ sid[u] \in 1..issued)

\* a request handler and a background job hold open sessions at the same time
C17_Witness ==
    /\ sess["request"] = "open" /\ via["request"] = "get_session"
    /\ sess["queue"] = "open" /\ via["queue"] = "get_session_for_queue"

\* C18: while the caller of a provider has not called commit, the committed row
\* is the row committed before the scope was entered, and it still is once the
\* scope has exited, by return or by exception
C18_NoCommitOnExit ==
    \A u \in Units : calls[u] = <<>> => db[u] = db0[u]

\* both scopes exited without a commit, one by return and one by exception,
\* each dropping a mutation the caller had made
C18_Witness ==
    /\ \A u \in Units :
        upc[u] = "exited" /\ calls[u] = <<>> /\ mem[u].data # db[u].data
    /\ exc["request"] = NoExc /\ exc["queue"] = CallerError

\* C14 as claimed: once the import is over, if neither a connection string nor
\* all five parameters are present (set and not empty) it has failed and no
\* engine exists; otherwise the engine exists, created from the connection
\* string if that is present and else from the URL built from the five
C14_EngineOrConfigError ==
    cpc \in {"ready", "failed"} =>
        LET given == Truthy(env["DATABASE_URL"])
        IN  IF ~given /\ ~AllParams(env)
            THEN cpc = "failed" /\ engine = None
            ELSE /\ cpc = "ready"
                 /\ engine = IF given THEN env["DATABASE_URL"] ELSE BuiltUrl(env)

(* ---------------------- claims: extractor.py ---------------------------- *)

\* the cleanup step of the current invocation is over
CleanupOver == fpc \in {"ingest", "done"}

\* the cleanup step is over and none of its filesystem calls raised
CleanupClean == CleanupOver /\ fsFailed = "none"

C7_CleanupFailureContained ==
    fsFailed \in {"listdir", "remove"} =>
        /\ errLogged
        /\ fexc = "none"
        /\ fpc \in {"ingest", "done", "idle"}

\* a run returned after os.remove raised, leaving a regular file behind
C7_Witness ==
    /\ fpc = "done" /\ fsFailed = "remove"
    /\ \E n \in Names : ents[n] = "file"

IsPrefix(x, y) == Len(x) <= Len(y) /\ x = SubSeq(y, 1, Len(x))

\* the steps of a complete lifespan
LifespanSteps == <<"create_all", "add_job", "start", "serve", "shutdown(wait=False)", "dispose">>

\* C8: the steps of every lifespan happen in the order create_all, add_job, start,
\* serve, shutdown(wait=False), dispose; while an application serves, the
\* scheduler runs with the job "DailyCEMPADataDownload" registered for 03:30; the
\* engine is disposed only after the lifespan stopped the scheduler, once per
\* lifespan
C8_LifespanOrder ==
    /\ \A a \in Apps :
        /\ IsPrefix(steps[a], LifespanSteps)
        /\ lpc[a] = "serving" =>
                /\ steps[a] = SubSeq(LifespanSteps, 1, 4)
                /\ schedState = "running"
                /\ \E i \in 1..Len(store) :
                    /\ store[i].id = "DailyCEMPADataDownload"
                    /\ store[i].hour = 3 /\ store[i].minute = 30
        /\ lpc[a] = "disposing" => steps[a] = SubSeq(LifespanSteps, 1, 5)
        /\ lpc[a] = "down" => steps[a] = LifespanSteps
    /\ disposed = Cardinality({a \in Apps : lpc[a] = "down"})

\* a lifespan ran from startup to the disposal of the engine, and the job fired
\* while it served
C8_Witness == \E a \in Apps : lpc[a] = "down" /\ ranAt # {}

\* C9: the job store never holds two jobs of one id, no registration fails on an
\* id that is already registered, and the stored job is the definition of the
\* lifespan that registered last
C9_ReRegistrationReplaces ==
    /\ \A i, j \in 1..Len(store) : store[i].id = store[j].id => i = j
    /\ \A a \in Apps : lerr[a] # "ConflictingIdError"
    /\ (schedState = "running" /\ lastReg # 0) =>
            \E i \in 1..Len(store) : store[i].id = JobId /\ store[i].def = lastReg

\* C10: once an occurrence has raised, while the scheduler keeps running the job
\* is still in the job store and every later 03:30 that has passed was
\* dispatched and ran
C10_ErrorConfinedToOccurrence ==
    \A t \in failedAt :
        (schedState = "running" /\ startedAt <= t) =>
            /\ HasId(store, JobId)
            /\ \A T \in Readings :
                (Matches(T, 3, 30) /\ t < T /\ T < now) => (T \in firedAt /\ T \in ranAt)

\* an occurrence raised, and the occurrence of the next day ran
C10_Witness ==
    /\ schedState = "running"
    /\ \E t \in failedAt, T \in ranAt : startedAt <= t /\ t < T

\* C11: the executor never holds two instances of the job
\* "DailyCEMPADataDownload", pending or executing, and at most one executes:
\* a trigger time that arrives while an instance is still there submits nothing
C11_OneInstanceAtATime ==
    /\ Len(inst) <= 1
    /\ held => Len(inst) = 1
    /\ \A i \in 1..Len(inst) : inst[i].at \in firedAt

\* 03:30 of a later day was processed by the timer while the instance
\* dispatched earlier was still in the executor
C11_Witness ==
    /\ schedState = "running" /\ store # <<>> /\ ~Due
    /\ Matches(now, TriggerHour, TriggerMinute)
    /\ Len(inst) = 1 /\ inst[1].at < now

C13_FiresAtTriggerTime ==
    /\ [](/\ \A T \in firedAt : Matches(T, TriggerHour, TriggerMinute)
          /\ (schedState = "running" /\ HasId(store, JobId)) =>
                \A T \in Readings :
                    (Matches(T, TriggerHour, TriggerMinute) /\ startedAt <= T /\ T < now)
                        => T \in firedAt)
    /\ [][Len(inst') > Len(inst) =>
            /\ Matches(now, TriggerHour, TriggerMinute)
            /\ now \notin firedAt
            /\ firedAt' = firedAt \cup {now}]_vars

\* the scheduler was started after 03:30 of the first day and, still running,
\* dispatched and ran the occurrence of the next day and no other
C13_Witness ==
    /\ schedState = "running"
    /\ startedAt > TriggerHour * 60 + TriggerMinute
    /\ firedAt = {DayMinutes + TriggerHour * 60 + TriggerMinute}
    /\ ranAt = firedAt

\* C15 as claimed: while DownloadCEMPAData executes, a GET /health request that
\* arrived since the run began does not wait while the clock moves on, and a job
\* that is due does not stay due
C15_LoopServesDuringRun ==
    held =>
        /\ (req = "waiting" /\ Head(inst).at <= reqAt) => reqAt = now
        /\ \A i \in 1..Len(store) : store[i].next >= now

\* C19: a lifespan whose schema creation failed has ended there: it completed
\* no step, never registered the job and never serves; and while no lifespan
\* got past schema creation the scheduler is stopped and empty and no job has
\* been dispatched or run
C19_SchemaFailureFatal ==
    /\ \A a \in Apps :
        lerr[a] = "DBAPIError" =>
            /\ lpc[a] = "failed"
            /\ steps[a] = <<>>
            /\ lastReg # a
            /\ \A i \in 1..Len(store) : store[i].def # a
    /\ (\A a \in Apps : steps[a] = <<>>) =>
            /\ schedState = "stopped" /\ store = <<>> /\ lastReg = 0
            /\ inst = <<>> /\ firedAt = {} /\ ranAt = {}

\* schema creation failed in every lifespan, and 03:30 has passed
C19_Witness ==
    /\ \A a \in Apps : lerr[a] = "DBAPIError"
    /\ now > TriggerHour * 60 + TriggerMinute

====
